---- MODULE Spec2Model ----
(***************************************************************************)
(* sqlweld: discovery, classification, engine construction, parallel       *)
(* rendering and output of SQL templates (src/src/lib.rs, fn build).        *)
(*                                                                         *)
(* A file name is the sequence of its dot-separated components:            *)
(* "foo.sql.tera" is <<"foo", "sql", "tera">>.  A directory is the          *)
(* sequence of its components.  A text (file content, header, output) is   *)
(* a sequence of one-character strings, plus two template directives that  *)
(* stand for Tera syntax: "{p}" is {% include "p" %} and "{%" is an        *)
(* unterminated tag (a syntax error); "#bin" stands for bytes that are not *)
(* UTF-8.  An Option is a sequence of length 0 (None) or 1 (Some).          *)
(***************************************************************************)
EXTENDS Integers, Sequences, FiniteSets, TLC

\* ------------------------------------------------------------------ bounds
MaxFiles == 3          \* template files in the input tree
ChanCap == 1           \* capacity of the path channel, scaled down from 64
MaxHeaderLen == 4      \* characters of a custom header (header specification)
MaxIncludeDepth == 2   \* nesting of includes followed by the renderer
MaxText == 3           \* bytes of text fed to the formatter (pipe specification)
PipeCap == 1           \* bytes a pipe of the formatter holds
MaxOut == 2            \* bytes the formatter prints on stdout, and on stderr

\* ------------------------------------------------------------ text helpers
Range(s) == {s[i] : i \in 1..Len(s)}

EndsWithSeq(s, suf) ==
    /\ Len(s) >= Len(suf)
    /\ SubSeq(s, Len(s) - Len(suf) + 1, Len(s)) = suf

\* str::ends_with(".x.y") on a name given by its components: the suffix
\* starts with a dot, so at least one component (maybe empty) precedes it.
EndsWithDot(name, suf) == Len(name) > Len(suf) /\ EndsWithSeq(name, suf)

None == <<>>
Some(x) == <<x>>
UnwrapOr(o, d) == IF o = None THEN d ELSE o[1]

\* ------------------------------------------------------------------- paths
Path(dir, name) == [dir |-> dir, name |-> name]

InputDir == <<"in">>
SubDir == <<"in", "d1">>
OutDir == <<"out">>

TEMPLATE_SUFFIX == <<"sql", "tera">>
MACRO_SUFFIX == <<"macros", "sql", "tera">>
PARTIAL_SUFFIX == <<"partial", "sql", "tera">>

\* Path::strip_prefix(input_dir)
StripPrefix(path, prefix) ==
    Path(SubSeq(path.dir, Len(prefix) + 1, Len(path.dir)), path.name)

\* fn template_type: macro suffix first, then partial, else Normal.
template_type(path) ==
    IF EndsWithDot(path.name, MACRO_SUFFIX) THEN "Macro"
    ELSE IF EndsWithDot(path.name, PARTIAL_SUFFIX) THEN "Partial"
    ELSE "Normal"

\* str::strip_suffix on a name that ends with the suffix
StripSuffix(name, suf) == SubSeq(name, 1, Len(name) - Len(suf))

\* The name a template is registered under: the relative path for a Normal
\* template, the suffix-stripped file name for a macro or partial file.
TemplateName(rel, typ) ==
    IF typ = "Normal" THEN rel
    ELSE IF typ = "Macro" THEN Path(<<>>, StripSuffix(rel.name, MACRO_SUFFIX))
    ELSE Path(<<>>, StripSuffix(rel.name, PARTIAL_SUFFIX))

\* ------------------------------------------------------ the input universe
FooTpl == Path(InputDir, <<"foo", "sql", "tera">>)
SubFooTpl == Path(SubDir, <<"foo", "sql", "tera">>)
BarTpl == Path(InputDir, <<"bar", "sql", "tera">>)
PPartial == Path(InputDir, <<"p", "partial", "sql", "tera">>)
PMacros == Path(SubDir, <<"p", "macros", "sql", "tera">>)
QPartial == Path(InputDir, <<"q", "partial", "sql", "tera">>)
OtherFile == Path(InputDir, <<"other", "tera">>)
\* A file left by something else where a destination will be: not text.
StaleFile == Path(SubDir, <<"foo", "sql">>)

TemplateFiles == {FooTpl, SubFooTpl, BarTpl, PPartial, PMacros, QPartial}

SourceOf(p) ==
    CASE p = FooTpl -> <<"a", "{p}">>
      [] p = SubFooTpl -> <<"b", "!">>
      [] p = BarTpl -> <<"{%">>
      [] p = PPartial -> <<"c">>
      [] p = PMacros -> <<"d">>
      [] p = QPartial -> <<"{%">>
      [] p = StaleFile -> <<"#bin">>
      [] OTHER -> <<"o">>

Trees == {T \in SUBSET TemplateFiles : Cardinality(T) <= MaxFiles}

\* ------------------------------------------------------------------- state
VARIABLES
    fs,         \* the file system: path -> content, for the files that exist
    options,    \* struct Options
    run,        \* 1 or 2: which consecutive call of build this is
    unvisited,  \* files the walker threads have not reached yet
    walk,       \* the walker thread: "running", "done" (senders dropped), "quit"
    chan,       \* the bounded channel file_tx -> file_rx
    partials,   \* HashMap name -> path of the macro and partial files
    templates,  \* Vec of (path, name), every discovered file
    tera,       \* the engine: name -> source
    pc,         \* build: "classify", "render", "done"
    st,         \* per template of the fan-out: the step its closure reached
    out,        \* per template: the closure's local `output`
    err,        \* per template: the error its closure returned
    result,     \* what build returned
    log,        \* this run's events: renders, formatter runs, writes
    prev,       \* the result of the previous run, and the file system as
                \* this run found it
    pipe        \* one formatter step: its two threads, the subprocess and
                \* the three pipes between them

vars == <<fs, options, run, unvisited, walk, chan, partials, templates, tera,
          pc, st, out, err, result, log, prev, pipe>>

Ok == [kind |-> "Ok", paths |-> <<>>]
Err(kind, paths) == [kind |-> kind, paths |-> paths]
NoResult == [kind |-> "Running", paths |-> <<>>]

EmptyMap == [x \in {} |-> <<>>]
EmptyLog == [renders |-> {}, formats |-> {}, writes |-> {}]

\* ------------------------------------------------------------- Path Source
\* filter_entry on a file: the file name ends with ".sql.tera".
FilterEntry(p) == EndsWithDot(p.name, TEMPLATE_SUFFIX)

\* What the parallel walker yields from the input directory.
Discover(files) ==
    {p \in DOMAIN files :
        /\ Len(p.dir) >= Len(InputDir)
        /\ SubSeq(p.dir, 1, Len(InputDir)) = InputDir
        /\ FilterEntry(p)}

Extensions == {None, Some(<<"gen", "sql">>), Some(<<"sql", "tera">>)}
Outputs == {None, Some(OutDir)}
Headers == {None, Some(<<"h", "\r", "\n", " ", "k">>)}
Formatters == {None, Some("fmt"), Some("nofmt")}

OptionsSet ==
    [output : Outputs, extension : Extensions, header : Headers,
     formatter : Formatters, always_write : BOOLEAN]

\* No formatter step is looked into.
PipeIdle ==
    [text |-> 0, written |-> 0, wr |-> "idle", stdin |-> 0, stdinOpen |-> FALSE,
     child |-> "none", want |-> "none", eof |-> FALSE, made |-> 0, errs |-> 0,
     stdout |-> 0, stderr |-> 0, main |-> "idle", result |-> "none"]

StartOfBuild(files) ==
    /\ unvisited = Discover(files)
    /\ walk = "running"
    /\ chan = <<>>
    /\ partials = EmptyMap
    /\ templates = <<>>
    /\ tera = EmptyMap
    /\ pc = "classify"
    /\ st = EmptyMap
    /\ out = EmptyMap
    /\ err = EmptyMap
    /\ result = NoResult
    /\ log = EmptyLog

Init ==
    /\ \E T \in Trees :
          fs = [p \in T \cup {OtherFile, StaleFile} |-> SourceOf(p)]
    /\ options \in OptionsSet
    /\ run = 1
    /\ prev = [result |-> NoResult, fs |-> fs]
    /\ pipe = PipeIdle
    /\ StartOfBuild(fs)

\* Mutant: a send whose receiver is gone waits for room like any other.
Send_NeverFails(p) ==
    /\ walk = "running"
    /\ p \in unvisited
    /\ pc = "classify"
    /\ Len(chan) < ChanCap
    /\ chan' = Append(chan, p)
    /\ unvisited' = unvisited \ {p}
    /\ UNCHANGED <<pipe, fs, options, run, walk, partials, templates, tera, pc, st,
                   out, err, result, log, prev>>

\* A walker thread sends one path; it blocks while the channel is full and
\* quits when the receiver is gone.
Send(p) ==
    /\ walk = "running"
    /\ p \in unvisited
    /\ IF pc = "classify"
       THEN /\ Len(chan) < ChanCap
            /\ chan' = Append(chan, p)
            /\ unvisited' = unvisited \ {p}
            /\ walk' = walk
       ELSE /\ walk' = "quit"
            /\ UNCHANGED <<pipe, chan, unvisited>>
    /\ UNCHANGED <<pipe, fs, options, run, partials, templates, tera, pc, st, out,
                   err, result, log, prev>>

\* walker.run returns: every sender is dropped and the channel closes.
WalkFinish ==
    /\ walk = "running"
    /\ unvisited = {}
    /\ walk' = "done"
    /\ UNCHANGED <<pipe, fs, options, run, unvisited, chan, partials, templates,
                   tera, pc, st, out, err, result, log, prev>>

\* ----------------------------------------------------- Template Classifier
\* Mutant: only partial files are checked and registered, macro files not.
IsRegistered_PartialOnly(typ) == typ = "Partial"

\* `if typ != TemplateType::Normal`: macro and partial files go through the
\* duplicate check and into `partials`.
IsRegistered(typ) == typ # "Normal"

\* Mutant: the duplicate is recorded but the loop goes on.
AfterDuplicate_Continue == "classify"

\* `return Err(Error::DuplicatePartial)`: build is over.
AfterDuplicate == "done"

\* One iteration of `for path in file_rx`.
Receive ==
    /\ pc = "classify"
    /\ chan # <<>>
    /\ LET path == Head(chan)
           rel == StripPrefix(path, InputDir)
           typ == template_type(rel)
           name == TemplateName(rel, typ)
       IN  IF IsRegistered(typ) /\ name \in DOMAIN partials
           THEN /\ result' = Err("DuplicatePartial", <<partials[name], path>>)
                /\ pc' = AfterDuplicate
                /\ chan' = <<>>
                /\ UNCHANGED <<pipe, partials, templates>>
           ELSE /\ partials' = IF IsRegistered(typ)
                               THEN partials @@ (name :> path)
                               ELSE partials
                /\ templates' = Append(templates, [path |-> path, name |-> name])
                /\ chan' = Tail(chan)
                /\ UNCHANGED <<pipe, pc, result>>
    /\ UNCHANGED <<pipe, fs, options, run, unvisited, walk, tera, st, out, err, log,
                   prev>>

\* ---------------------------------------------------------- Engine Builder
\* Tera fails to parse a source with an unterminated tag.
Parses(src) == "{%" \notin Range(src)

\* The template an include directive names.
IncludeTarget(tok) == Path(<<>>, <<"p">>)
IsInclude(tok) == tok = "{p}"

\* Tera::add_template_files: every (path, name) is read and registered under
\* its name; a later entry replaces an earlier one of the same name.
AddTemplateFiles(tpls, files) ==
    LET names == {tpls[i].name : i \in 1..Len(tpls)}
        last(n) == CHOOSE i \in 1..Len(tpls) :
                      /\ tpls[i].name = n
                      /\ \A j \in (i + 1)..Len(tpls) : tpls[j].name # n
    IN  [n \in names |-> files[tpls[last(n)].path]]

\* Mutant: the filter is missing, every registered file is rendered.
NormalItems_All(tpls) == 1..Len(tpls)

\* The items of the parallel iterator: into_par_iter().filter(Normal).
NormalItems(tpls) ==
    {i \in 1..Len(tpls) : template_type(tpls[i].path) = "Normal"}

\* Mutant: an engine without templates is reported as an error.
EmptyEngineResult_Error == Err("ReadTemplate", <<>>)

\* `if tera.get_template_names().next().is_none() { return Ok(()) }`
EmptyEngineResult == Ok

\* Mutant: the loop ends as soon as the channel is found empty.
ChannelClosed_Empty == chan = <<>>

\* `for path in file_rx` ends: the channel is empty and every sender has
\* been dropped, which is when walker.run has returned.
ChannelClosed == chan = <<>> /\ walk = "done"

\* tera.add_template_files(...)?, then the early return of an empty engine.
BuildEngine ==
    /\ pc = "classify"
    /\ ChannelClosed
    /\ IF \E i \in 1..Len(templates) : ~Parses(fs[templates[i].path])
       THEN /\ result' = Err("ReadTemplate", <<>>)
            /\ pc' = "done"
            /\ UNCHANGED <<pipe, tera, st>>
       ELSE /\ tera' = AddTemplateFiles(templates, fs)
            /\ IF DOMAIN tera' = {}
               THEN /\ result' = EmptyEngineResult
                    /\ pc' = "done"
                    /\ st' = st
               ELSE /\ pc' = "render"
                    /\ st' = [i \in NormalItems(templates) |-> "pending"]
                    /\ result' = result
    /\ UNCHANGED <<pipe, fs, options, run, unvisited, walk, chan, partials,
                   templates, out, err, log, prev>>

\* --------------------------------------------------------- Render Fan-out
RenderFailed == [ok |-> FALSE, text |-> <<>>]

\* tera.render: literal text is copied, an include is replaced by the
\* rendering of the template it names, and fails when none is registered.
RECURSIVE RenderText(_, _, _)
RenderText(src, env, depth) ==
    IF src = <<>> THEN [ok |-> TRUE, text |-> <<>>]
    ELSE LET tok == Head(src)
             first ==
                IF ~IsInclude(tok) THEN [ok |-> TRUE, text |-> <<tok>>]
                ELSE IF depth = 0 \/ IncludeTarget(tok) \notin DOMAIN env
                     THEN RenderFailed
                     ELSE RenderText(env[IncludeTarget(tok)], env, depth - 1)
             rest == RenderText(Tail(src), env, depth)
         IN  IF first.ok /\ rest.ok
             THEN [ok |-> TRUE, text |-> first.text \o rest.text]
             ELSE RenderFailed

TeraRender(name, env) ==
    IF name \in DOMAIN env
    THEN RenderText(env[name], env, MaxIncludeDepth)
    ELSE RenderFailed

\* ---------------------------------------------------------- Output Pipeline
DefaultExtension == <<"sql">>

\* file_name().strip_suffix(".sql.tera"): None when the name does not end so.
HasTemplateSuffix(path) == EndsWithDot(path.name, TEMPLATE_SUFFIX)
template_base_name(path) == StripSuffix(path.name, TEMPLATE_SUFFIX)

\* Mutant: only ".tera" is stripped from the file name.
output_filename_KeepsSql(path, extension) ==
    StripSuffix(path.name, <<"tera">>) \o extension

\* format!("{template_base_name}.{extension}")
output_filename(path, extension) == template_base_name(path) \o extension

\* output.join(output_filename) or path.with_file_name(output_filename)
output_path(path, opts) ==
    LET fname == output_filename(path, UnwrapOr(opts.extension, DefaultExtension))
    IN  IF opts.output # None
        THEN Path(opts.output[1], fname)
        ELSE Path(path.dir, fname)

DefaultHeader ==
    <<"A", "u", "t", "o", "g", "e", "n", "e", "r", "a", "t", "e", "d", " ",
      "b", "y", " ", "s", "q", "l", "w", "e", "l", "d">>

Newlines == {"\n", "\r"}
Whitespace == {" ", "\t", "\n", "\r"}

\* str::split on a set of separator characters: one more piece than there
\* are separators, empty pieces included.
RECURSIVE Split(_, _)
Split(s, seps) ==
    IF \A i \in 1..Len(s) : s[i] \notin seps THEN <<s>>
    ELSE LET k == CHOOSE i \in 1..Len(s) :
                     s[i] \in seps /\ \A j \in 1..(i - 1) : s[j] \notin seps
         IN  <<SubSeq(s, 1, k - 1)>> \o Split(SubSeq(s, k + 1, Len(s)), seps)

\* str::trim
RECURSIVE TrimStart(_)
TrimStart(s) ==
    IF s # <<>> /\ Head(s) \in Whitespace THEN TrimStart(Tail(s)) ELSE s

RECURSIVE TrimEnd(_)
TrimEnd(s) ==
    IF s # <<>> /\ s[Len(s)] \in Whitespace
    THEN TrimEnd(SubSeq(s, 1, Len(s) - 1))
    ELSE s

Trim(s) == TrimEnd(TrimStart(s))

\* Iterator::filter(|s| !s.is_empty())
RECURSIVE NonEmpty(_)
NonEmpty(pieces) ==
    IF pieces = <<>> THEN <<>>
    ELSE IF Head(pieces) = <<>> THEN NonEmpty(Tail(pieces))
    ELSE <<Head(pieces)>> \o NonEmpty(Tail(pieces))

\* Itertools::join
RECURSIVE Join(_, _)
Join(pieces, sep) ==
    IF pieces = <<>> THEN <<>>
    ELSE IF Len(pieces) = 1 THEN pieces[1]
    ELSE pieces[1] \o sep \o Join(Tail(pieces), sep)

CommentPrefix == <<"-", "-", " ">>

\* Mutant: the header is split on "\n" alone.
HeaderSeparators_LfOnly == {"\n"}

HeaderSeparators == Newlines

\* header.split(['\n', '\r']).map(trim).filter(non-empty)
\*       .map(|s| format!("-- {}", s)).join("\n")
header_lines(header) ==
    LET pieces == Split(header, HeaderSeparators)
        trimmed == [i \in 1..Len(pieces) |-> Trim(pieces[i])]
        kept == NonEmpty(trimmed)
        prefixed == [i \in 1..Len(kept) |-> CommentPrefix \o kept[i]]
    IN  Join(prefixed, <<"\n">>)

\* The output before the formatter: the header block, a blank line, the body.
WithHeader(opts, body) ==
    LET lines == header_lines(UnwrapOr(opts.header, DefaultHeader))
    IN  IF lines = <<>> THEN body ELSE lines \o <<"\n", "\n">> \o body

\* The formatter command, a deterministic external program.  "nofmt" is no
\* program: spawn fails.  "fmt" exits with a non-zero status on a text
\* holding "!", and else prints the text terminated by ";".
FormatterRun(cmd, text) ==
    IF cmd = "nofmt" \/ "!" \in Range(text)
    THEN [success |-> FALSE, stdout |-> <<>>]
    ELSE [success |-> TRUE, stdout |-> Append(text, ";")]

\* Mutant: the result of the closures is dropped.
Failed_Never == FALSE

\* The `?` of each closure and of try_for_each: an error returned by one
\* closure stops the iteration and becomes build's result.
Failed == \E i \in DOMAIN st : st[i] = "failed"
InFlight(i) ==
    st[i] \in {"picked", "rendered", "formatted", "towrite", "writing"}

\* A worker takes the next item unless the consumer is already full.
Pick(i) ==
    /\ pc = "render"
    /\ i \in DOMAIN st
    /\ st[i] = "pending"
    /\ ~Failed
    /\ st' = [st EXCEPT ![i] = "picked"]
    /\ UNCHANGED <<pipe, fs, options, run, unvisited, walk, chan, partials,
                   templates, tera, pc, out, err, result, log, prev>>

\* tera.render, the destination's file name, the header.
Render(i) ==
    /\ pc = "render"
    /\ i \in DOMAIN st
    /\ st[i] = "picked"
    /\ LET path == templates[i].path
           r == TeraRender(templates[i].name, tera)
       IN  /\ log' = [log EXCEPT !.renders = @ \cup {i}]
           /\ IF ~r.ok
              THEN /\ st' = [st EXCEPT ![i] = "failed"]
                   /\ err' = err @@ (i :> Err("Render", <<path>>))
                   /\ out' = out
              ELSE IF ~HasTemplateSuffix(path)
              THEN /\ st' = [st EXCEPT ![i] = "failed"]
                   /\ err' = err @@ (i :> Err("InternalError", <<path>>))
                   /\ out' = out
              ELSE /\ st' = [st EXCEPT ![i] = "rendered"]
                   /\ out' = out @@ (i :> WithHeader(options, r.text))
                   /\ err' = err
    /\ UNCHANGED <<pipe, fs, options, run, unvisited, walk, chan, partials,
                   templates, tera, pc, result, prev>>

\* The formatter subprocess: spawn, feed, wait, check the exit status.
Format(i) ==
    /\ pc = "render"
    /\ i \in DOMAIN st
    /\ st[i] = "rendered"
    /\ options.formatter # None
    /\ LET r == FormatterRun(options.formatter[1], out[i])
       IN  /\ log' = [log EXCEPT !.formats = @ \cup {i}]
           /\ IF ~r.success
              THEN /\ st' = [st EXCEPT ![i] = "failed"]
                   /\ err' = err @@ (i :> Err("Formatter", <<>>))
                   /\ out' = out
              ELSE /\ st' = [st EXCEPT ![i] = "formatted"]
                   /\ out' = [out EXCEPT ![i] = r.stdout]
                   /\ err' = err
    /\ UNCHANGED <<pipe, fs, options, run, unvisited, walk, chan, partials,
                   templates, tera, pc, result, prev>>

\* std::fs::read_to_string is Ok for a file that exists and is UTF-8.
IsText(content) == "#bin" \notin Range(content)

\* Mutant: the file is compared whether or not always_write is set.
Unchanged_EvenIfAlways(opts, files, dest, text) ==
    dest \in DOMAIN files /\ files[dest] = text

\* if !always_write { read_to_string(output_path) == output => return Ok }
Unchanged(opts, files, dest, text) ==
    /\ ~opts.always_write
    /\ dest \in DOMAIN files
    /\ IsText(files[dest])
    /\ files[dest] = text

\* Mutant: the existing file is compared before the formatter has run.
ReadyToCompare_BeforeFormatter(i) == st[i] = "rendered"

\* The unchanged check follows the formatter when one is configured, and
\* else the header.
ReadyToCompare(i) ==
    IF options.formatter # None THEN st[i] = "formatted" ELSE st[i] = "rendered"

Compare(i) ==
    /\ pc = "render"
    /\ i \in DOMAIN st
    /\ ReadyToCompare(i)
    /\ st' = [st EXCEPT ![i] =
                IF Unchanged(options, fs, output_path(templates[i].path, options),
                             out[i])
                THEN "skipped" ELSE "towrite"]
    /\ UNCHANGED <<pipe, fs, options, run, unvisited, walk, chan, partials,
                   templates, tera, pc, out, err, result, log, prev>>

\* The file system with the contents at the path, every other file as it was.
FileReplaced(files, path, contents) ==
    [p \in DOMAIN files \cup {path} |->
        IF p = path THEN contents ELSE files[p]]

\* Mutant: the temporary file is renamed onto the path before it is filled.
atomic_write_file_RenameFirst(files, path, contents) ==
    FileReplaced(files, path, <<>>)

\* fn atomic_write_file, when it succeeds: the contents go to a temporary
\* file, which persist() renames onto the path in one step.
atomic_write_file(files, path, contents) ==
    FileReplaced(files, path, contents)

\* std::fs::write opens the path with truncation, then writes the contents.
Truncated(files, path) == FileReplaced(files, path, <<>>)

\* fn write_file, when it returns Ok: the destination holds the contents.
write_file(files, path, contents) == FileReplaced(files, path, contents)

\* write_file whose atomic_write_file succeeds.
Write(i) ==
    /\ pc = "render"
    /\ i \in DOMAIN st
    /\ st[i] = "towrite"
    /\ LET dest == output_path(templates[i].path, options)
       IN  /\ fs' = atomic_write_file(fs, dest, out[i])
           /\ log' = [log EXCEPT !.writes = @ \cup {[path |-> dest, by |-> i]}]
    /\ st' = [st EXCEPT ![i] = "written"]
    /\ UNCHANGED <<pipe, options, run, unvisited, walk, chan, partials, templates,
                   tera, pc, out, err, result, prev>>

\* write_file whose atomic_write_file fails (the temporary file is in the
\* system's temporary directory: persist fails across file systems) and
\* whose std::fs::write has opened the destination.
WriteFallback(i) ==
    /\ pc = "render"
    /\ i \in DOMAIN st
    /\ st[i] = "towrite"
    /\ fs' = Truncated(fs, output_path(templates[i].path, options))
    /\ st' = [st EXCEPT ![i] = "writing"]
    /\ UNCHANGED <<pipe, options, run, unvisited, walk, chan, partials, templates,
                   tera, pc, out, err, result, log, prev>>

\* std::fs::write has written the contents; write_file returns Ok.
WriteRest(i) ==
    /\ pc = "render"
    /\ i \in DOMAIN st
    /\ st[i] = "writing"
    /\ LET dest == output_path(templates[i].path, options)
       IN  /\ fs' = write_file(fs, dest, out[i])
           /\ log' = [log EXCEPT !.writes = @ \cup {[path |-> dest, by |-> i]}]
    /\ st' = [st EXCEPT ![i] = "written"]
    /\ UNCHANGED <<pipe, options, run, unvisited, walk, chan, partials, templates,
                   tera, pc, out, err, result, prev>>

\* std::fs::write fails after it has opened the destination (the disk is
\* full): Error::WriteResult with the path, the file is left cut short.
WriteRestFail(i) ==
    /\ pc = "render"
    /\ i \in DOMAIN st
    /\ st[i] = "writing"
    /\ st' = [st EXCEPT ![i] = "failed"]
    /\ err' = err @@ (i :> Err("WriteResult",
                               <<output_path(templates[i].path, options)>>))
    /\ UNCHANGED <<pipe, fs, options, run, unvisited, walk, chan, partials,
                   templates, tera, pc, out, result, log, prev>>

\* write_file whose atomic_write_file and std::fs::write both fail (the
\* destination cannot be created): Error::WriteResult with the path.
WriteFail(i) ==
    /\ pc = "render"
    /\ i \in DOMAIN st
    /\ st[i] = "towrite"
    /\ st' = [st EXCEPT ![i] = "failed"]
    /\ err' = err @@ (i :> Err("WriteResult",
                               <<output_path(templates[i].path, options)>>))
    /\ UNCHANGED <<pipe, fs, options, run, unvisited, walk, chan, partials,
                   templates, tera, pc, out, result, log, prev>>

\* try_for_each returns: every started closure has returned, and either all
\* items are done or an error stopped the rest from starting.
Finish ==
    /\ pc = "render"
    /\ \A i \in DOMAIN st : ~InFlight(i)
    /\ Failed \/ \A i \in DOMAIN st : st[i] # "pending"
    /\ IF Failed
       THEN \E i \in DOMAIN st : st[i] = "failed" /\ result' = err[i]
       ELSE result' = Ok
    /\ pc' = "done"
    /\ UNCHANGED <<pipe, fs, options, run, unvisited, walk, chan, partials,
                   templates, tera, st, out, err, log, prev>>

\* build is called again with the same options on the tree as it now is.
Runs == 1..2

Restart ==
    /\ pc = "done"
    /\ run + 1 \in Runs
    /\ run' = run + 1
    /\ prev' = [result |-> result, fs |-> fs]
    /\ unvisited' = Discover(fs)
    /\ walk' = "running"
    /\ chan' = <<>>
    /\ partials' = EmptyMap
    /\ templates' = <<>>
    /\ tera' = EmptyMap
    /\ pc' = "classify"
    /\ st' = EmptyMap
    /\ out' = EmptyMap
    /\ err' = EmptyMap
    /\ result' = NoResult
    /\ log' = EmptyLog
    /\ UNCHANGED <<pipe, fs, options>>

Next ==
    \/ \E p \in unvisited : Send(p)
    \/ WalkFinish
    \/ Receive
    \/ BuildEngine
    \/ \E i \in DOMAIN st : Pick(i)
    \/ \E i \in DOMAIN st : Render(i)
    \/ \E i \in DOMAIN st : Format(i)
    \/ \E i \in DOMAIN st : Compare(i)
    \/ \E i \in DOMAIN st : Write(i)
    \/ \E i \in DOMAIN st : WriteFallback(i)
    \/ \E i \in DOMAIN st : WriteRest(i)
    \/ \E i \in DOMAIN st : WriteRestFail(i)
    \/ \E i \in DOMAIN st : WriteFail(i)
    \/ Finish
    \/ Restart

Spec == Init /\ [][Next]_vars

\* ------------------------------------------- the header, over many headers
\* One template, no formatter, and every header text of at most
\* MaxHeaderLen characters over letters, blanks and both newline characters.
HeaderAlphabet == {"h", " ", "\n", "\r"}
HeaderTexts == UNION {[1..n -> HeaderAlphabet] : n \in 0..MaxHeaderLen}

HeaderInit ==
    /\ \E T \in {{SubFooTpl}, {FooTpl, PPartial}} :
          fs = [p \in T \cup {OtherFile} |-> SourceOf(p)]
    /\ options \in [output : {None}, extension : {None},
                    header : {None} \cup {Some(h) : h \in HeaderTexts},
                    formatter : {None}, always_write : {FALSE}]
    /\ run = 1
    /\ prev = [result |-> NoResult, fs |-> fs]
    /\ pipe = PipeIdle
    /\ StartOfBuild(fs)

HeaderNext ==
    \/ \E p \in unvisited : Send(p)
    \/ WalkFinish
    \/ Receive
    \/ BuildEngine
    \/ \E i \in DOMAIN st : Pick(i)
    \/ \E i \in DOMAIN st : Render(i)
    \/ \E i \in DOMAIN st : Compare(i)
    \/ \E i \in DOMAIN st : Write(i)
    \/ Finish

SpecHeader == HeaderInit /\ [][HeaderNext]_vars

\* ------------------------------------------ the walker, under fair threads
\* The walker thread and its workers are operating-system threads: one that
\* can take a step is not kept from it forever.
WalkInit ==
    /\ Init
    /\ options = [output |-> None, extension |-> None, header |-> None,
                  formatter |-> Some("fmt"), always_write |-> FALSE]

SpecWalk ==
    /\ WalkInit
    /\ [][Next]_vars
    /\ WF_vars(\E p \in unvisited : Send(p))
    /\ WF_vars(WalkFinish)

\* --------------------------------------------- one formatter step, in detail
\* The closure between spawn and the check of the exit status: the writer
\* thread feeds `output` to the subprocess's stdin, the closure's own thread
\* is in wait_with_output and then joins the writer.  text is the length of
\* `output`; stdin, stdout and stderr are the bytes each pipe holds.  The
\* subprocess is any program: it reads, prints and exits in an order of its
\* own; want is the system call it is in.
PipeStart(n) ==
    [text |-> n, written |-> 0, wr |-> "writing", stdin |-> 0,
     stdinOpen |-> TRUE, child |-> "running", want |-> "none", eof |-> FALSE,
     made |-> 0, errs |-> 0, stdout |-> 0, stderr |-> 0, main |-> "reading",
     result |-> "none"]

PipeInit ==
    /\ fs = [p \in {SubFooTpl, OtherFile, StaleFile} |-> SourceOf(p)]
    /\ options = [output |-> None, extension |-> None, header |-> None,
                  formatter |-> Some("fmt"), always_write |-> FALSE]
    /\ run = 1
    /\ prev = [result |-> NoResult, fs |-> fs]
    /\ StartOfBuild(fs)
    /\ \E n \in 0..MaxText : pipe = PipeStart(n)

PipeFrame ==
    UNCHANGED <<fs, options, run, unvisited, walk, chan, partials, templates,
                tera, pc, st, out, err, result, log, prev>>

\* stdin.write_all: one more byte goes into the pipe when it has room.
WriterWrite ==
    /\ pipe.wr = "writing"
    /\ pipe.written < pipe.text
    /\ pipe.child = "running"
    /\ pipe.stdin < PipeCap
    /\ pipe' = [pipe EXCEPT !.written = @ + 1, !.stdin = @ + 1]
    /\ PipeFrame

\* stdin.write_all on a pipe whose reader has exited: an error, the closure
\* of the writer thread returns it and drops stdin.
WriterBrokenPipe ==
    /\ pipe.wr = "writing"
    /\ pipe.written < pipe.text
    /\ pipe.child # "running"
    /\ pipe' = [pipe EXCEPT !.wr = "failed", !.stdinOpen = FALSE]
    /\ PipeFrame

\* write_all returns Ok: the closure of the writer thread ends, which drops
\* stdin and so closes the pipe.
WriterFinish ==
    /\ pipe.wr = "writing"
    /\ pipe.written = pipe.text
    /\ pipe' = [pipe EXCEPT !.wr = "ok", !.stdinOpen = FALSE]
    /\ PipeFrame

\* The subprocess goes into its next system call.
ChildCall(op) ==
    /\ pipe.child = "running"
    /\ pipe.want = "none"
    /\ \/ op = "read" /\ ~pipe.eof
       \/ op = "out" /\ pipe.made < MaxOut
       \/ op = "err" /\ pipe.errs < MaxOut
       \/ op = "exit"
    /\ pipe' = [pipe EXCEPT !.want = op]
    /\ PipeFrame

ChildRead ==
    /\ pipe.child = "running"
    /\ pipe.want = "read"
    /\ pipe.stdin > 0
    /\ pipe' = [pipe EXCEPT !.stdin = @ - 1, !.want = "none"]
    /\ PipeFrame

\* A read of the empty, closed stdin returns end of input.
ChildEof ==
    /\ pipe.child = "running"
    /\ pipe.want = "read"
    /\ pipe.stdin = 0
    /\ ~pipe.stdinOpen
    /\ pipe' = [pipe EXCEPT !.eof = TRUE, !.want = "none"]
    /\ PipeFrame

ChildOut ==
    /\ pipe.child = "running"
    /\ pipe.want = "out"
    /\ pipe.stdout < PipeCap
    /\ pipe' = [pipe EXCEPT !.stdout = @ + 1, !.made = @ + 1, !.want = "none"]
    /\ PipeFrame

ChildErr ==
    /\ pipe.child = "running"
    /\ pipe.want = "err"
    /\ pipe.stderr < PipeCap
    /\ pipe' = [pipe EXCEPT !.stderr = @ + 1, !.errs = @ + 1, !.want = "none"]
    /\ PipeFrame

\* The subprocess exits: its ends of the three pipes close.
ChildExit(status) ==
    /\ pipe.child = "running"
    /\ pipe.want = "exit"
    /\ pipe' = [pipe EXCEPT !.child = status, !.stdin = 0, !.want = "none"]
    /\ PipeFrame

\* Mutant: the text is written by the closure's own thread, which comes to
\* wait_with_output once write_all has returned.
MainCollecting_AfterWrite == pipe.main = "reading" /\ pipe.wr # "writing"

\* The closure's thread is in wait_with_output while the writer thread runs:
\* it reads stdout and stderr, whichever has data, until both are closed.
MainCollecting == pipe.main = "reading"

MainReadOut ==
    /\ MainCollecting
    /\ pipe.stdout > 0
    /\ pipe' = [pipe EXCEPT !.stdout = @ - 1]
    /\ PipeFrame

MainReadErr ==
    /\ MainCollecting
    /\ pipe.stderr > 0
    /\ pipe' = [pipe EXCEPT !.stderr = @ - 1]
    /\ PipeFrame

\* Both pipes are at their end and the subprocess has exited:
\* wait_with_output returns.
MainWaited ==
    /\ MainCollecting
    /\ pipe.child # "running"
    /\ pipe.stdout = 0
    /\ pipe.stderr = 0
    /\ pipe' = [pipe EXCEPT !.main = "joining"]
    /\ PipeFrame

\* writer_thread.join(), then the writer's result and the exit status.
MainJoin ==
    /\ pipe.main = "joining"
    /\ pipe.wr # "writing"
    /\ pipe' = [pipe EXCEPT
                  !.main = "done",
                  !.result = IF pipe.wr = "failed" \/ pipe.child = "fail"
                             THEN "Formatter" ELSE "Ok"]
    /\ PipeFrame

PipeNext ==
    \/ WriterWrite
    \/ WriterBrokenPipe
    \/ WriterFinish
    \/ \E op \in {"read", "out", "err", "exit"} : ChildCall(op)
    \/ ChildRead
    \/ ChildEof
    \/ ChildOut
    \/ ChildErr
    \/ \E status \in {"success", "fail"} : ChildExit(status)
    \/ MainReadOut
    \/ MainReadErr
    \/ MainWaited
    \/ MainJoin

\* The two threads and the subprocess are scheduled by the operating system:
\* while one of them can step, a step is taken.
SpecPipe == PipeInit /\ [][PipeNext]_vars /\ WF_vars(PipeNext)

\* ================================================================= claims
Src(i) == templates[i].path
Dest(i) == output_path(Src(i), options)
WritesTo(path) == {w \in log.writes : w.path = path}
WritesBy(i) == {w \in log.writes : w.by = i}
Body(i) == TeraRender(templates[i].name, tera).text

IsPartialOrMacroName(name) ==
    \/ EndsWithDot(name, <<"partial", "sql", "tera">>)
    \/ EndsWithDot(name, <<"macros", "sql", "tera">>)

\* The file name without its role suffix and template suffix.
LogicalName(name) == SubSeq(name, 1, Len(name) - 3)

\* Two discovered partial or macro files have the same logical name.
DupNames(files) ==
    \E p, q \in Discover(files) :
        /\ p # q
        /\ IsPartialOrMacroName(p.name)
        /\ IsPartialOrMacroName(q.name)
        /\ LogicalName(p.name) = LogicalName(q.name)

\* No discovered source has been overwritten.
InputsIntact(files) == \A p \in Discover(files) : files[p] = SourceOf(p)

\* C1 (as stated): when the first run succeeded on a tree without partial or
\* macro name conflicts and always_write is off, a second run with the same
\* options writes nothing and leaves every file as the first run left it.
\* Stated for the runs that leave the sources themselves untouched.
C1_SecondRunWritesNothing ==
    (/\ run = 2
     /\ pc = "done"
     /\ ~options.always_write
     /\ prev.result = Ok
     /\ ~DupNames(prev.fs)
     /\ InputsIntact(prev.fs))
    => (log.writes = {} /\ fs = prev.fs)

\* C2: two discovered partial or macro files with the same logical name make
\* build return DuplicatePartial, in whatever order the walker delivers the
\* paths; and DuplicatePartial is returned for no other tree.
C2_DuplicateAlwaysFails ==
    pc = "done" => (DupNames(fs) <=> result.kind = "DuplicatePartial")

C2_Witness ==
    /\ pc = "done"
    /\ run = 1
    /\ result = Err("DuplicatePartial", <<PMacros, PPartial>>)
    /\ Len(templates) = 2

\* C3: when build returns DuplicatePartial or ReadTemplate, the run has
\* rendered nothing, run no formatter and written no file.
C3_NoWorkBeforeSequentialError ==
    result.kind \in {"DuplicatePartial", "ReadTemplate"}
    => /\ log = EmptyLog
       /\ st = EmptyMap
       /\ run = 2 => fs = prev.fs

C3_Witness ==
    /\ result.kind = "ReadTemplate"
    /\ \E i \in 1..Len(templates) : Src(i) = FooTpl
    /\ \E n \in DOMAIN partials : partials[n] = PPartial
    /\ log = EmptyLog

\* C4: whatever is rendered, formatted or written belongs to a Normal
\* template: the source of every write is a file whose name has neither the
\* partial nor the macro suffix, and every written path is the destination
\* of a discovered file without those suffixes.
C4_PartialsProduceNoOutput ==
    /\ \A i \in DOMAIN st \cup log.renders \cup log.formats :
          ~IsPartialOrMacroName(Src(i).name)
    /\ \A w \in log.writes : ~IsPartialOrMacroName(Src(w.by).name)
    /\ \A w \in log.writes :
          \E p \in Discover(fs) :
              ~IsPartialOrMacroName(p.name) /\ w.path = output_path(p, options)

C4_Witness ==
    /\ pc = "done"
    /\ result = Ok
    /\ PMacros \in DOMAIN fs
    /\ \E w \in log.writes : Src(w.by) = FooTpl

\* C5: a written file is named <base>.<extension> for the source
\* <base>.sql.tera, extension "sql" unless given, and lies in the output root
\* when one is given and else in the directory of its source.
C5_DestinationShape ==
    \A w \in log.writes :
        LET n == Src(w.by).name
            e == IF options.extension = <<>> THEN <<"sql">> ELSE options.extension[1]
        IN  /\ Len(n) >= 3
            /\ n[Len(n) - 1] = "sql"
            /\ n[Len(n)] = "tera"
            /\ w.path.name = SubSeq(n, 1, Len(n) - 2) \o e
            /\ w.path.dir = IF options.output = <<>>
                            THEN Src(w.by).dir
                            ELSE options.output[1]

C5_Witness ==
    /\ options.extension = Some(<<"gen", "sql">>)
    /\ \E w \in log.writes :
          /\ Src(w.by) = SubFooTpl
          /\ w.path = Path(<<"out">>, <<"foo", "gen", "sql">>)
    /\ \E w \in log.writes :
          /\ Src(w.by) = FooTpl
          /\ w.path.name = <<"foo", "gen", "sql">>

\* C6 (as stated): no two Normal templates of a run share a destination, so
\* no two workers write the same file: two writes of a run to one path are
\* by one template.
C6_DestinationsDistinct ==
    \A v, w \in log.writes : v.path = w.path => v.by = w.by

\* C7: the text before the formatter is the body preceded by the header
\* block and a blank line: one "-- " line per non-blank header line, the
\* header being cut at every "\n" and "\r" and each line trimmed; with no
\* such line the text is the body alone.  Without a header option the block
\* is "-- Autogenerated by sqlweld".
RECURSIVE ScanHeader(_, _, _, _)
ScanHeader(s, acc, cur, ws) ==
    LET flushed == IF cur = <<>> THEN acc
                   ELSE (IF acc = <<>> THEN <<>> ELSE acc \o <<"\n">>)
                        \o <<"-", "-", " ">> \o cur
    IN  IF s = <<>> THEN flushed
        ELSE IF Head(s) \in {"\n", "\r"}
             THEN ScanHeader(Tail(s), flushed, <<>>, <<>>)
        ELSE IF Head(s) \in {" ", "\t"}
             THEN ScanHeader(Tail(s), acc, cur,
                             IF cur = <<>> THEN <<>> ELSE Append(ws, Head(s)))
        ELSE ScanHeader(Tail(s), acc, cur \o ws \o <<Head(s)>>, <<>>)

ExpectedText(i) ==
    IF options.header = <<>>
    THEN <<"-", "-", " ", "A", "u", "t", "o", "g", "e", "n", "e", "r", "a",
           "t", "e", "d", " ", "b", "y", " ", "s", "q", "l", "w", "e", "l",
           "d", "\n", "\n">> \o Body(i)
    ELSE LET block == ScanHeader(options.header[1], <<>>, <<>>, <<>>)
         IN  IF block = <<>> THEN Body(i) ELSE block \o <<"\n", "\n">> \o Body(i)

C7_HeaderBlock ==
    /\ \A i \in DOMAIN out : out[i] = ExpectedText(i)
    /\ \A w \in log.writes : fs[w.path] = ExpectedText(w.by)
    /\ \A i \in DOMAIN out :
          options.header = Some(<<"h", "\r", "\n", "h">>)
          => out[i] = <<"-", "-", " ", "h", "\n", "-", "-", " ", "h", "\n", "\n">>
                      \o Body(i)

C7_Witness ==
    /\ options.header = Some(<<"h", "\r", "\n", "h">>)
    /\ \E w \in log.writes :
          fs[w.path] = <<"-", "-", " ", "h", "\n", "-", "-", " ", "h", "\n",
                         "\n", "a", "c">>

C7_WitnessEmpty ==
    /\ options.header = Some(<<"\n", " ">>)
    /\ \E w \in log.writes : fs[w.path] = <<"a", "c">>

\* C8 (as stated): when the rendering of a template fails, build returns a
\* Render or ReadTemplate error that carries the path of that template, and
\* nothing is written to that template's destination in the run.  Stated for
\* the runs that have no output root, where every destination is of one
\* template only.
RenderFailures == {i \in DOMAIN err : err[i].kind = "Render"}

C8_ErrorNamesFailedTemplate ==
    (pc = "done" /\ options.output = None)
    => \A i \in RenderFailures :
          /\ result.kind \in {"Render", "ReadTemplate"}
          /\ Src(i) \in Range(result.paths)
          /\ WritesTo(Dest(i)) = {}

\* C8 (amended): when the rendering of a template fails, build returns an
\* error, the one some failed template returned; a Render error carries the
\* path of the template that raised it; the failed template's own closure
\* writes nothing, so its destination is written only by another template
\* that has the same destination.
C8_RenderFailureFailsBuild ==
    \A i \in RenderFailures :
        /\ err[i] = Err("Render", <<Src(i)>>)
        /\ WritesBy(i) = {}
        /\ \A w \in WritesTo(Dest(i)) : w.by # i /\ Dest(w.by) = Dest(i)
        /\ i \notin log.formats
        /\ pc = "done" =>
              /\ result.kind # "Ok"
              /\ \E j \in DOMAIN err : result = err[j]
              /\ result.kind = "Render" =>
                    \E j \in RenderFailures : result.paths = <<Src(j)>>

C8_Witness ==
    /\ pc = "done"
    /\ result = Err("Render", <<FooTpl>>)
    /\ \E j \in DOMAIN st : Src(j) = SubFooTpl /\ st[j] = "written"
    /\ Path(InputDir, <<"foo", "sql">>) \notin DOMAIN fs

\* C9 (as stated): with a formatter configured, a template whose formatter
\* fails returns Error::Formatter and its destination is not written; every
\* text written is the formatter's output for the text with the header.
C9_FormatterFailureWritesNothing ==
    options.formatter # None
    => /\ \A i \in DOMAIN err :
             err[i].kind = "Formatter" => WritesTo(Dest(i)) = {}
       /\ \A i \in log.formats :
             (options.formatter = Some("nofmt") \/ "!" \in Range(Body(i)))
             => (st[i] = "failed" /\ err[i].kind = "Formatter")
       /\ \A w \in log.writes :
             /\ w.by \in log.formats
             /\ options.formatter = Some("fmt")
             /\ "!" \notin Range(Body(w.by))
             /\ fs[w.path] = Append(ExpectedText(w.by), ";")

\* C10 (as stated): when no Normal template is discovered, with or without
\* partial and macro files, build returns Ok and writes nothing.
NoNormalTemplates(files) ==
    \A p \in Discover(files) : IsPartialOrMacroName(p.name)

C10_EmptySetIsOk ==
    (pc = "done" /\ NoNormalTemplates(fs))
    => (result = Ok /\ log.writes = {})

\* C10 (amended): when no Normal template is discovered, build writes
\* nothing and returns Ok, unless the partial and macro files themselves fail
\* the sequential phase: DuplicatePartial for two of the same name,
\* ReadTemplate for one that does not parse.
C10_EmptySetIsOkUnlessPartialsFail ==
    (pc = "done" /\ NoNormalTemplates(fs))
    => /\ log = EmptyLog
       /\ result.kind \in {"Ok", "DuplicatePartial", "ReadTemplate"}
       /\ result.kind = "DuplicatePartial" <=> DupNames(fs)
       /\ result.kind = "ReadTemplate" <=>
             (~DupNames(fs) /\ \E p \in Discover(fs) : ~Parses(fs[p]))

C10_Witness ==
    /\ pc = "done"
    /\ result = Ok
    /\ Discover(fs) = {PPartial}
    /\ tera # EmptyMap

C10_WitnessNoFiles ==
    /\ pc = "done"
    /\ result = Ok
    /\ Discover(fs) = {}
    /\ walk = "done"

\* C11: the traversal is a barrier.  Whenever a template is in the engine,
\* a closure of the fan-out exists or anything was rendered, formatted or
\* written, the channel is empty and closed and the walker has finished;
\* every discovered file is then in `templates`, and every partial and macro
\* file is in the registry and in the engine with the source it had.  From
\* the start of the fan-out on, registry, engine and `templates` do not change.
C11_TraversalIsBarrier ==
    /\ []((tera # EmptyMap \/ st # EmptyMap \/ log # EmptyLog)
          => /\ chan = <<>>
             /\ walk = "done"
             /\ unvisited = {}
             /\ \A p \in Discover(prev.fs) :
                   /\ \E i \in 1..Len(templates) : Src(i) = p
                   /\ IsPartialOrMacroName(p.name)
                      => LET n == Path(<<>>, LogicalName(p.name))
                         IN  /\ n \in DOMAIN partials
                             /\ partials[n] = p
                             /\ n \in DOMAIN tera
                             /\ tera[n] = prev.fs[p])
    /\ [][pc = "render"
          => (partials' = partials /\ tera' = tera /\ templates' = templates)]_vars

C11_Witness ==
    /\ pc = "render"
    /\ \E i \in DOMAIN st : Src(i) = FooTpl /\ st[i] = "written"
    /\ \E i \in DOMAIN st : Src(i) = SubFooTpl /\ st[i] = "picked"
    /\ partials = (Path(<<>>, <<"p">>) :> PPartial)

\* C12: once build has returned DuplicatePartial, which drops the receiver,
\* no further path enters the channel or leaves the walker, a walker that
\* still has a path to send (blocked on the full channel or not) quits at
\* that send and sends nothing after it, and under fair threads the walker
\* thread comes to an end; the walker quits for no other reason than a
\* failed send.
C12_WalkerEndsAfterReceiverDrop ==
    /\ [][(result.kind = "DuplicatePartial" /\ result'.kind = "DuplicatePartial")
          => (chan' = <<>> /\ unvisited' = unvisited)]_vars
    /\ [][(walk = "running" /\ walk' = "quit")
          => (result.kind = "DuplicatePartial" /\ unvisited # {})]_vars
    /\ [][(walk = "quit" /\ run' = run) => walk' = "quit"]_vars
    /\ (result.kind = "DuplicatePartial" /\ run = 2) ~> (walk # "running")

\* The walker was blocked on the full channel when the receiver was dropped,
\* and has quit with a path unsent.
C12_Witness ==
    /\ run = 2
    /\ result.kind = "DuplicatePartial"
    /\ walk = "quit"
    /\ unvisited # {}
    /\ Cardinality(Discover(fs)) - Len(templates) - Cardinality(unvisited)
          = ChanCap

\* C13: the formatter step cannot deadlock on its pipes and comes to an end.
\* Whatever the text, and whatever the order in which the subprocess reads,
\* prints and exits, there is no state before the end of the step in which
\* the writer thread, the thread in wait_with_output and the subprocess are
\* all blocked; the writer's end of stdin is closed as soon as write_all has
\* returned, so a subprocess reading to the end of its input finds it; and
\* the step ends.
WriterBlocked ==
    /\ pipe.wr = "writing"
    /\ pipe.written < pipe.text
    /\ pipe.child = "running"
    /\ pipe.stdin = PipeCap

ChildBlocked ==
    /\ pipe.child = "running"
    /\ \/ pipe.want = "read" /\ pipe.stdin = 0 /\ pipe.stdinOpen
       \/ pipe.want = "out" /\ pipe.stdout = PipeCap
       \/ pipe.want = "err" /\ pipe.stderr = PipeCap

MainBlocked ==
    \/ /\ pipe.main = "reading"
       /\ pipe.child = "running"
       /\ pipe.stdout = 0
       /\ pipe.stderr = 0
    \/ pipe.main = "joining" /\ pipe.wr = "writing"

C13_FormatterStepEnds ==
    /\ [](~(WriterBlocked /\ ChildBlocked /\ MainBlocked))
    /\ [](pipe.main # "done" => ENABLED PipeNext)
    /\ [](pipe.wr = "ok" => ~pipe.stdinOpen)
    /\ [](pipe.stdinOpen => pipe.wr = "writing")
    /\ <>(pipe.main = "done")

\* A step that ended well: the whole text was written and read to the end
\* of input, and the subprocess printed more than a pipe holds on stdout and
\* on stderr.
C13_Witness ==
    /\ pipe.main = "done"
    /\ pipe.result = "Ok"
    /\ pipe.text = MaxText
    /\ pipe.written = MaxText
    /\ pipe.made = MaxOut
    /\ pipe.errs = MaxOut
    /\ pipe.eof

\* C14: the steps of one template's closure come in the order render (with
\* the header), formatter, unchanged check, write.  With a formatter
\* configured, every template that reaches the unchanged check has been
\* through the formatter, also when the write is then skipped; the check
\* and the write use the formatter's output, and a write is skipped only
\* when the existing file equals that output.
FinalText(i) ==
    IF options.formatter = <<>> THEN ExpectedText(i)
    ELSE Append(ExpectedText(i), ";")

Decided(i) == st[i] \in {"skipped", "towrite", "writing", "written"}

StepOrder ==
    {<<"pending", "picked">>, <<"picked", "rendered">>, <<"picked", "failed">>,
     <<"formatted", "skipped">>, <<"formatted", "towrite">>,
     <<"towrite", "written">>, <<"towrite", "writing">>,
     <<"towrite", "failed">>, <<"writing", "written">>,
     <<"writing", "failed">>}
    \cup (IF options.formatter = <<>>
          THEN {<<"rendered", "skipped">>, <<"rendered", "towrite">>}
          ELSE {<<"rendered", "formatted">>, <<"rendered", "failed">>})

C14_StepsInOrder ==
    /\ [](\A i \in DOMAIN st :
            /\ i \in log.formats
               => (i \in log.renders /\ options.formatter # <<>>)
            /\ st[i] = "rendered" => out[i] = ExpectedText(i)
            /\ Decided(i)
               => /\ i \in log.renders
                  /\ options.formatter # <<>> => i \in log.formats
                  /\ out[i] = FinalText(i)
            /\ WritesBy(i) # {} => st[i] = "written")
    /\ [][\A i \in DOMAIN st \cap DOMAIN st' :
            /\ st'[i] # st[i] => <<st[i], st'[i]>> \in StepOrder
            /\ (st'[i] = "skipped" /\ st[i] # "skipped")
               => (Dest(i) \in DOMAIN fs /\ fs[Dest(i)] = FinalText(i))
            /\ (st'[i] = "written" /\ st[i] # "written")
               => fs'[Dest(i)] = FinalText(i)]_vars

C14_Witness ==
    /\ run = 2
    /\ options.formatter = Some("fmt")
    /\ \E i \in DOMAIN st :
          /\ st[i] = "skipped"
          /\ i \in log.formats
          /\ fs[Dest(i)] = Append(ExpectedText(i), ";")
          /\ fs[Dest(i)] # ExpectedText(i)

\* C15 (as stated): when a closure of the fan-out has failed, build returns
\* an error, the one some failed closure returned, every closure that was
\* started has come to its end, and every file a template wrote in the run
\* still holds what that template wrote.
C15_FailFastKeepsSiblingOutputs ==
    (pc = "done" /\ Failed)
    => /\ result.kind # "Ok"
       /\ \E j \in DOMAIN err : st[j] = "failed" /\ result = err[j]
       /\ \A i \in DOMAIN st : ~InFlight(i)
       /\ \A w \in log.writes : fs[w.path] = FinalText(w.by)

\* The part of C15 about closures not yet started: once a closure has
\* failed, no pending template is picked up, and build returns only when no
\* closure is running.
C15_NothingStartedAfterFailure ==
    /\ [][Failed => \A i \in DOMAIN st \cap DOMAIN st' :
                       st[i] = "pending" => st'[i] = "pending"]_vars
    /\ [][pc' = "done" => \A i \in DOMAIN st : ~InFlight(i)]_vars

\* What a reader may find at a path if every write is atomic: what the file
\* held when build was called, or the whole final text of a template that
\* has this destination.
CompleteContents(p) ==
    (IF p \in DOMAIN prev.fs THEN {prev.fs[p]} ELSE {})
    \cup {FinalText(i) : i \in {j \in DOMAIN out : Dest(j) = p}}

\* C16 (as stated): at every moment every file holds either what it held
\* before the run or the whole output of a template written to it, never
\* part of an output.
C16_ReaderSeesWholeFiles ==
    \A p \in DOMAIN fs : fs[p] \in CompleteContents(p)

\* A template whose write_file is, or failed, in std::fs::write on the path.
InDirectWrite(p) ==
    \E i \in DOMAIN st :
        /\ Dest(i) = p
        /\ \/ st[i] = "writing"
           \/ st[i] = "failed" /\ err[i].kind = "WriteResult"

\* C16 (amended): a file holds either what it held before the run or the
\* whole output of a template written to it, except a destination whose
\* write_file fell back to std::fs::write: while that write runs, and after
\* it has failed, the file can be found cut short.
C16_WholeFilesUnlessDirectWrite ==
    \A p \in DOMAIN fs : fs[p] \in CompleteContents(p) \/ InDirectWrite(p)

\* One template written whole to a new file while another's destination is
\* cut short by a direct write in progress.
C16_Witness ==
    /\ \E i \in DOMAIN st :
          /\ st[i] = "written"
          /\ Dest(i) \notin DOMAIN prev.fs
          /\ fs[Dest(i)] = FinalText(i)
    /\ \E j \in DOMAIN st :
          /\ st[j] = "writing"
          /\ fs[Dest(j)] = <<>>
          /\ fs[Dest(j)] \notin CompleteContents(Dest(j))

\* C17 (as stated): every error build returns carries the path of the file
\* it is about: a discovered source, or the destination for WriteResult;
\* DuplicatePartial carries the two conflicting paths.
C17_ErrorsCarryPath ==
    (pc = "done" /\ result.kind # "Ok")
    => /\ result.paths # <<>>
       /\ result.kind = "DuplicatePartial"
          => /\ Len(result.paths) = 2
             /\ result.paths[1] # result.paths[2]
             /\ \A k \in 1..2 :
                   /\ result.paths[k] \in Discover(fs)
                   /\ IsPartialOrMacroName(result.paths[k].name)
             /\ LogicalName(result.paths[1].name)
                   = LogicalName(result.paths[2].name)
       /\ result.kind \in {"Render", "InternalError", "ReadTemplate", "Formatter"}
          => \E p \in Discover(fs) : result.paths = <<p>>
       /\ result.kind = "WriteResult"
          => \E i \in DOMAIN st : result.paths = <<Dest(i)>>

\* C18: at the unchanged check the write is skipped exactly when
\* always_write is off and the destination exists, is text and equals the
\* computed output; a skipping closure writes nothing; in every other case
\* write_file is called for the destination with the computed output, which
\* the destination holds when write_file has returned Ok.
C18_SkipExactlyWhenUnchanged ==
    /\ [][\A i \in DOMAIN st \cap DOMAIN st' :
            /\ (st[i] \in {"rendered", "formatted"}
                /\ st'[i] \in {"skipped", "towrite"})
               => /\ st'[i] = "skipped"
                     <=> /\ ~options.always_write
                         /\ Dest(i) \in DOMAIN fs
                         /\ "#bin" \notin Range(fs[Dest(i)])
                         /\ fs[Dest(i)] = FinalText(i)
                  /\ fs' = fs
            /\ (st[i] = "towrite" /\ st'[i] # "towrite")
               => \/ st'[i] = "written" /\ fs'[Dest(i)] = FinalText(i)
                  \/ st'[i] = "writing"
                  \/ st'[i] = "failed" /\ err'[i].kind = "WriteResult"
            /\ (st[i] = "writing" /\ st'[i] # "writing")
               => \/ st'[i] = "written" /\ fs'[Dest(i)] = FinalText(i)
                  \/ st'[i] = "failed" /\ err'[i].kind = "WriteResult"
            /\ st[i] = "skipped" => st'[i] = "skipped"]_vars
    /\ [](\A i \in DOMAIN st :
            /\ st[i] = "skipped" => WritesBy(i) = {}
            /\ st[i] = "written" => WritesBy(i) = {[path |-> Dest(i), by |-> i]}
            /\ (pc = "done" /\ result = Ok) => st[i] \in {"skipped", "written"})

\* The destination exists but is not text: it is written.
C18_Witness ==
    /\ run = 1
    /\ ~options.always_write
    /\ prev.fs[StaleFile] = <<"#bin">>
    /\ \E i \in DOMAIN st :
          /\ Dest(i) = StaleFile
          /\ st[i] = "written"
          /\ fs[StaleFile] = FinalText(i)

\* The destination is unchanged: the write is skipped.
C18_WitnessSkip ==
    /\ run = 2
    /\ \E i \in DOMAIN st :
          /\ st[i] = "skipped"
          /\ prev.fs[Dest(i)] = FinalText(i)
          /\ fs = prev.fs

\* always_write: an unchanged destination is written again.
C18_WitnessAlways ==
    /\ run = 2
    /\ options.always_write
    /\ \E i \in DOMAIN st :
          /\ st[i] = "written"
          /\ prev.fs[Dest(i)] = FinalText(i)

\* C19 (as stated): build never modifies its inputs: no write goes to the
\* path of a discovered template, partial or macro file, and every such file
\* holds what it held when build was called.
C19_InputsNeverWritten ==
    /\ \A w \in log.writes : w.path \notin Discover(prev.fs)
    /\ \A p \in Discover(prev.fs) : p \in DOMAIN fs /\ fs[p] = prev.fs[p]

\* C20 (as stated): when build returns Ok, every discovered Normal template
\* has gone through the fan-out and the file at its destination holds that
\* template's final output.
C20_OkMeansEveryOutputInPlace ==
    (pc = "done" /\ result = Ok)
    => /\ \A p \in Discover(prev.fs) :
             ~IsPartialOrMacroName(p.name) => \E i \in DOMAIN st : Src(i) = p
       /\ \A i \in DOMAIN st :
             Dest(i) \in DOMAIN fs /\ fs[Dest(i)] = FinalText(i)
====
